---- MODULE Spec2Model ----
(***************************************************************************)
(* Model of crates/egui_cosmic_glue/src/atlas.rs: TextureAtlas, the glyph  *)
(* atlas that packs rasterized glyphs into a growable square texture,      *)
(* keeps them in an LRU cache and evicts glyphs not used this frame.       *)
(*                                                                         *)
(* TextureAtlas::alloc is modelled by its position in its loops: Alloc is  *)
(* the body up to the first call of alloc_packer (cache lookup, rasterize, *)
(* zero-size sentinel), PackStep is one packer.allocate attempt together   *)
(* with the success arm of alloc, EvictStep is one iteration of the        *)
(* eviction loop of alloc_packer, and GrowStep is the None arm of alloc    *)
(* (TextureAtlas::grow).  The code is single threaded: while a call is in  *)
(* one of its loops (pc # "idle") only its own next step is enabled.       *)
(*                                                                         *)
(* The etagere allocator, the lru cache and the swash rasterizer are       *)
(* libraries the file calls; they are modelled by what the calls do.       *)
(***************************************************************************)
EXTENDS Integers, Sequences, FiniteSets, TLC

\* ---------------------------------------------------------------- bounds
NumKeys == 5            \* glyph identities (CacheKey values) 1..NumKeys

\* ------------------------------------------------------ program constants
InitialSide == 256      \* atlas.rs:142  let atlas_side = 256_usize

Keys == 1 .. NumKeys

\* values the egui context can report as max_texture_side (atlas.rs:158, 311)
MaxSideValues == {256, 400, 512}

Min(a, b) == IF a <= b THEN a ELSE b

\* ------------------------------------------------------------ rasterizer
NoImage == [kind |-> "NoImage"]

\* SwashCache::get_image_uncached as alloc and grow call it (atlas.rs:252,
\* 185): None, or an image with its placement and content.  The result is a
\* function of the cache key: a glyph of zero width, two glyphs of 200x200,
\* one the rasterizer fails on, one of 300x300, and so on cyclically.
get_image_uncached(k) ==
    CASE (k - 1) % 5 = 0 -> [kind |-> "Image", content |-> "Mask",
                             placement |-> [left |-> 0, top |-> 0, width |-> 0, height |-> 7]]
      [] (k - 1) % 5 = 1 -> [kind |-> "Image", content |-> "Mask",
                             placement |-> [left |-> 1, top |-> 2, width |-> 200, height |-> 200]]
      [] (k - 1) % 5 = 2 -> [kind |-> "Image", content |-> "Color",
                             placement |-> [left |-> 0, top |-> 3, width |-> 200, height |-> 200]]
      [] (k - 1) % 5 = 3 -> NoImage
      [] OTHER           -> [kind |-> "Image", content |-> "SubpixelMask",
                             placement |-> [left |-> 2, top |-> 5, width |-> 300, height |-> 300]]

\* ------------------------------------------------- etagere atlas allocator
NoAlloc == [kind |-> "NoAlloc"]

\* BucketedAtlasAllocator::new(Size::splat(side))  (atlas.rs:143)
PackerNew(side) == [side |-> side, live |-> {}]

Intersects(a, b) ==
    /\ a.x < b.x + b.w /\ b.x < a.x + a.w
    /\ a.y < b.y + b.h /\ b.y < a.y + a.h

\* the packer places rectangles on multiples of the initial side
GridPoints(side) == {g \in 0 .. side : g % InitialSide = 0}

\* rectangles of the requested size that lie inside the packer's area and
\* intersect no live allocation
FreeRects(p, w, h) ==
    {r \in [x : GridPoints(p.side), y : GridPoints(p.side), w : {w}, h : {h}] :
        /\ r.x + w <= p.side /\ r.y + h <= p.side
        /\ \A a \in p.live : ~Intersects(r, a)}

FreshId(p) == CHOOSE i \in 1 .. (Cardinality(p.live) + 1) : \A a \in p.live : a.id # i

\* packer.allocate(size) (atlas.rs:210): the possible results.  It returns a
\* free rectangle with a handle no live allocation has, or None.  None is the
\* only result when no free rectangle exists; a shelf allocator may also
\* refuse while other allocations fragment its area.
PackerAllocate(p, w, h) ==
    {[kind |-> "Alloc", id |-> FreshId(p), x |-> r.x, y |-> r.y, w |-> r.w, h |-> r.h] :
        r \in FreeRects(p, w, h)}
    \cup (IF FreeRects(p, w, h) = {} \/ p.live # {} THEN {NoAlloc} ELSE {})

\* the allocator after allocate returned a
PackerAllocated(p, a) ==
    [p EXCEPT !.live = @ \cup {[id |-> a.id, x |-> a.x, y |-> a.y, w |-> a.w, h |-> a.h]}]

\* packer.deallocate(id) (atlas.rs:226)
PackerDeallocate(p, id) == [p EXCEPT !.live = {a \in @ : a.id # id}]

\* packer.grow(Size::splat(new_side)) (atlas.rs:178): the area is extended,
\* the live allocations keep their handles and rectangles
PackerGrow(p, new_side) == [p EXCEPT !.side = new_side]

\* ------------------------------------------------------------- lru cache
\* LruCache<CacheKey, Option<GlyphState>>: a sequence of entries, the least
\* recently used first.  value is NoneState (the zero-size sentinel) or a
\* GlyphState.
NoneState == [kind |-> "None"]

CacheKeys(c) == {c[i].key : i \in 1 .. Len(c)}
KeySeq(c) == [i \in 1 .. Len(c) |-> c[i].key]
IndexOf(c, k) == CHOOSE i \in 1 .. Len(c) : c[i].key = k
Without(c, k) == SelectSeq(c, LAMBDA e : e.key # k)
ValueOf(c, k) == c[IndexOf(c, k)].value

\* faulty variant: promote makes the entry the least recently used
LruDemote(c, k) ==
    IF k \in CacheKeys(c) THEN <<c[IndexOf(c, k)]>> \o Without(c, k) ELSE c

\* LruCache::promote: the entry becomes the most recently used
LruPromote(c, k) ==
    IF k \in CacheKeys(c) THEN Append(Without(c, k), c[IndexOf(c, k)]) ELSE c

\* LruCache::get: a hit also makes the entry the most recently used
LruGet(c, k) == LruPromote(c, k)

\* faulty variant: put inserts at the least recently used end
LruPutAsOldest(c, k, v) == <<[key |-> k, value |-> v]>> \o Without(c, k)

\* LruCache::put: insert or replace, as the most recently used
LruPut(c, k, v) == Append(Without(c, k), [key |-> k, value |-> v])

\* faulty variant: pop_lru returns the oldest entry without removing it
LruPopLruKeeping(c) == c

\* LruCache::peek_lru / pop_lru (callers check the cache is not empty)
LruPeekLru(c) == Head(c)
LruPopLru(c) == Tail(c)

\* LruCache::iter: the entries, most recently used first
LruIter(c) == [i \in 1 .. Len(c) |-> c[Len(c) + 1 - i]]

\* ----------------------------------------------------------------- state
VARIABLES
    atlas,      \* the TextureAtlas: packer, cache, in_use, atlas_side,
                \* max_texture_side, texture
    pc,         \* where the running alloc call is: "idle" (no call running),
                \* "pack", "evict", "grow", or "panicked"
    call,       \* the alloc call that is running or has just returned: its
                \* key, its image, its result, and what it has done so far
    access,     \* history: the cached keys, least recently accessed by an
                \* alloc call first
    pix,        \* history: the bitmaps of cached glyphs that the pixels of the
                \* current texture hold intact, as [key, x, y, w, h]
    max_seen    \* history: the largest max_texture_side the context has
                \* reported so far

vars == <<atlas, pc, call, access, pix, max_seen>>

\* ------------------------------------------------------------------ egui
\* ctx.load_texture (atlas.rs:153, 198): a new texture handle of side x side
LoadTexture(id, side) == [id |-> id, size |-> side]

\* texture.set_partial(pos, img) (atlas.rs:271): the pixels of the region
\* are overwritten by the bitmap
SetPartial(px, stamp) == {q \in px : ~Intersects(q, stamp)} \cup {stamp}

\* GlyphImage::new (atlas.rs:79-89): the texture id, the uv rectangle (the
\* region's origin and the glyph's size as fractions of the texture size,
\* kept here as the numerators and the denominator) and the metrics
GlyphImageNew(t, rect, placement, colorable) ==
    [kind |-> "Some", atlas_texture_id |-> t.id,
     uv_x |-> rect.x, uv_y |-> rect.y, uv_w |-> placement.width,
     uv_h |-> placement.height, uv_den |-> t.size,
     colorable |-> colorable, top |-> placement.top, left |-> placement.left,
     width |-> placement.width, height |-> placement.height]

NoGlyphImage == [kind |-> "None"]

\* --------------------------------------------------------- TextureAtlas
\* TextureAtlas::new (atlas.rs:141-169); m is what the context reports
new(m) ==
    [packer |-> PackerNew(InitialSide),
     cache |-> << >>,
     in_use |-> {},
     atlas_side |-> InitialSide,
     max_texture_side |-> m,
     texture |-> LoadTexture(0, InitialSide)]

\* faulty variant: grow recopies no cached glyph into the new image
RecopiedPixNothing(c) == {}

\* the pixels grow writes into the new image (atlas.rs:180-191): for every cached GlyphState
\* whose glyph rasterizes again, the image at the allocation's origin
RecopiedPix(c) ==
    LET it == LruIter(c)
    IN  {[key |-> it[i].key, x |-> it[i].value.allocation.x, y |-> it[i].value.allocation.y,
          w |-> get_image_uncached(it[i].key).placement.width,
          h |-> get_image_uncached(it[i].key).placement.height] :
            i \in {j \in 1 .. Len(it) : /\ it[j].value # NoneState
                                        /\ get_image_uncached(it[j].key) # NoImage}}

\* faulty variant: the doubled side is not capped at max_texture_side
growUncapped(s) ==
    LET new_side_size == s.atlas_side * 2
    IN  [s EXCEPT !.atlas_side = new_side_size,
                  !.packer = PackerGrow(s.packer, new_side_size),
                  !.texture = LoadTexture(s.texture.id + 1, new_side_size)]

\* faulty variant: the new side is the old side, not its double
growNotDoubling(s) ==
    LET new_side_size == Min(s.atlas_side, s.max_texture_side)
    IN  [s EXCEPT !.atlas_side = new_side_size,
                  !.packer = PackerGrow(s.packer, new_side_size),
                  !.texture = LoadTexture(s.texture.id + 1, new_side_size)]

\* faulty variant: grow drops the zero-size sentinels from the cache
growDroppingSentinels(s) ==
    LET new_side_size == Min(s.atlas_side * 2, s.max_texture_side)
    IN  [s EXCEPT !.atlas_side = new_side_size,
                  !.packer = PackerGrow(s.packer, new_side_size),
                  !.cache = SelectSeq(@, LAMBDA e : e.value # NoneState),
                  !.in_use = {k \in @ : \E i \in 1 .. Len(s.cache) :
                                 s.cache[i].key = k /\ s.cache[i].value # NoneState},
                  !.texture = LoadTexture(s.texture.id + 1, new_side_size)]

\* faulty variant: the packer is created anew for the new side instead of grown
growNewPacker(s) ==
    LET new_side_size == Min(s.atlas_side * 2, s.max_texture_side)
    IN  [s EXCEPT !.atlas_side = new_side_size,
                  !.packer = PackerNew(new_side_size),
                  !.texture = LoadTexture(s.texture.id + 1, new_side_size)]

\* TextureAtlas::grow after its assertion (atlas.rs:176-202)
grow(s) ==
    LET new_side_size == Min(s.atlas_side * 2, s.max_texture_side)
    IN  [s EXCEPT !.atlas_side = new_side_size,
                  !.packer = PackerGrow(s.packer, new_side_size),
                  !.texture = LoadTexture(s.texture.id + 1, new_side_size)]

\* faulty variant: grow does not assert that the side is below the maximum
GrowAssertionMissing(s) == TRUE

\* the assertion grow starts with (atlas.rs:175)
GrowAssertion(s) == s.atlas_side < s.max_texture_side

\* faulty variant: promote moves the entry but does not mark the key in use
promoteNotMarking(s, k) == [s EXCEPT !.cache = LruPromote(s.cache, k)]

\* faulty variant: promote leaves the zero-size sentinel alone
promoteSkippingSentinel(s, k) ==
    IF ValueOf(s.cache, k) = NoneState THEN s
    ELSE [s EXCEPT !.cache = LruPromote(s.cache, k), !.in_use = @ \cup {k}]

\* TextureAtlas::promote (atlas.rs:231-234)
promote(s, k) ==
    [s EXCEPT !.cache = LruPromote(s.cache, k), !.in_use = @ \cup {k}]

\* faulty variant: put marks the key in use but does not insert the entry
putNotCached(s, k, v) == [s EXCEPT !.in_use = @ \cup {k}]

\* faulty variant: put inserts the entry but does not mark the key in use
putNotMarking(s, k, v) == [s EXCEPT !.cache = LruPut(s.cache, k, v)]

\* TextureAtlas::put (atlas.rs:237-240)
put(s, k, v) ==
    [s EXCEPT !.cache = LruPut(s.cache, k, v), !.in_use = @ \cup {k}]

\* faulty variant: the eviction loop does not look at the in-use set
InUseIgnored(s, k) == FALSE

\* faulty variant: the eviction loop takes the keys not in use for in use
InUseInverted(s, k) == k \notin s.in_use

\* the test of the eviction loop (atlas.rs:216): the glyph is in use this frame
InUse(s, k) == k \in s.in_use

\* faulty variant: a failed rasterization is cached like a zero-size glyph
alloc_miss_caching_failure(s, k, image) == put(s, k, NoneState)

\* faulty variant: a failed rasterization drops the least recently used entry
alloc_miss_dropping_oldest(s, k, image) ==
    IF image = NoImage
    THEN [s EXCEPT !.cache = IF @ = << >> THEN @ ELSE LruPopLru(@)]
    ELSE put(s, k, NoneState)

\* the miss arms of alloc that return None (atlas.rs:252-256): the rasterizer
\* gave no image (the ? returns), or an image of zero width or height (the
\* sentinel is stored)
alloc_miss(s, k, image) ==
    IF image = NoImage THEN s ELSE put(s, k, NoneState)

\* faulty variant: a smaller maximum also shrinks the side
update_max_texture_side_clamping(s, m) ==
    [s EXCEPT !.max_texture_side = m, !.atlas_side = Min(@, m)]

\* TextureAtlas::update_max_texture_side (atlas.rs:311)
update_max_texture_side(s, m) == [s EXCEPT !.max_texture_side = m]

\* faulty variant: trim empties the cache together with the in-use set
trimClearingCache(s) == [s EXCEPT !.in_use = {}, !.cache = << >>]

\* TextureAtlas::trim (atlas.rs:317)
trim(s) == [s EXCEPT !.in_use = {}]

\* ---------------------------------------------------------------- actions
NoCall ==
    [key |-> 0, image |-> NoImage, result |-> NoGlyphImage, raster_calls |-> 0,
     evictions |-> 0, grows |-> 0, start_len |-> 0, start_side |-> InitialSide]

Pending == [kind |-> "Pending"]
Panic == [kind |-> "Panic"]

Init ==
    /\ \E m \in MaxSideValues : atlas = new(m) /\ max_seen = m
    /\ pc = "idle"
    /\ call = NoCall
    /\ access = << >>
    /\ pix = {}

MoveToEnd(q, k) == Append(SelectSeq(q, LAMBDA e : e # k), k)

\* TextureAtlas::alloc up to its packing loop (atlas.rs:247-257, 285-298)
Alloc(k) ==
    /\ pc = "idle"
    /\ LET begun == [NoCall EXCEPT !.key = k, !.start_len = Len(atlas.cache),
                                   !.start_side = atlas.atlas_side]
       IN
       IF k \in CacheKeys(atlas.cache)
       THEN \* Some(state_opt): cache.get found it; promote; return the entry
            LET got == [atlas EXCEPT !.cache = LruGet(atlas.cache, k)]
                state == ValueOf(atlas.cache, k)
                after == promote(got, k)
            IN  /\ atlas' = after
                /\ call' = [begun EXCEPT !.result =
                                IF state = NoneState THEN NoGlyphImage
                                ELSE GlyphImageNew(after.texture, state.allocation,
                                                   state.placement, state.colorable)]
                /\ access' = MoveToEnd(access, k)
                /\ pc' = "idle"
                /\ UNCHANGED <<pix, max_seen>>
       ELSE \* None: not cached; rasterize
            LET image == get_image_uncached(k)
                rastered == [begun EXCEPT !.raster_calls = 1]
            IN  IF image = NoImage
                      \/ image.placement.width = 0 \/ image.placement.height = 0
                THEN \* return None
                     /\ atlas' = alloc_miss(atlas, k, image)
                     /\ call' = rastered
                     /\ access' = IF image = NoImage THEN access
                                   ELSE MoveToEnd(access, k)
                     /\ pc' = "idle"
                     /\ UNCHANGED <<pix, max_seen>>
                ELSE /\ call' = [rastered EXCEPT !.image = image, !.result = Pending]
                     /\ pc' = "pack"
                     /\ UNCHANGED <<atlas, access, pix, max_seen>>

\* one packer.allocate of alloc_packer (atlas.rs:210-212) and, when it
\* succeeds, the Some(alloc) arm of alloc (atlas.rs:260-277, 291-298)
PackStep ==
    /\ pc = "pack"
    /\ \E a \in PackerAllocate(atlas.packer, call.image.placement.width,
                                call.image.placement.height) :
          IF a = NoAlloc
          THEN /\ pc' = "evict"
               /\ UNCHANGED <<atlas, call, access, pix, max_seen>>
          ELSE LET state == [kind |-> "GlyphState",
                             allocation |-> [id |-> a.id, x |-> a.x, y |-> a.y,
                                             w |-> a.w, h |-> a.h],
                             placement |-> call.image.placement,
                             colorable |-> (call.image.content = "Mask")]
                   packed == [atlas EXCEPT !.packer = PackerAllocated(atlas.packer, a)]
                   after == put(packed, call.key, state)
               IN  /\ atlas' = after
                   /\ pix' = SetPartial(pix, [key |-> call.key, x |-> a.x, y |-> a.y,
                                              w |-> call.image.placement.width,
                                              h |-> call.image.placement.height])
                   /\ call' = [call EXCEPT !.result =
                                   GlyphImageNew(after.texture, state.allocation,
                                                 state.placement, state.colorable)]
                   /\ access' = MoveToEnd(access, call.key)
                   /\ pc' = "idle"
                   /\ UNCHANGED max_seen

\* one iteration of the eviction loop of alloc_packer (atlas.rs:214-226)
EvictStep ==
    /\ pc = "evict"
    /\ IF atlas.cache = << >>
       THEN \* peek_lru()? : alloc_packer returns None
            /\ pc' = "grow"
            /\ UNCHANGED <<atlas, call, access, pix, max_seen>>
       ELSE IF InUse(atlas, LruPeekLru(atlas.cache).key)
       THEN \* in use this frame: alloc_packer returns None
            /\ pc' = "grow"
            /\ UNCHANGED <<atlas, call, access, pix, max_seen>>
       ELSE LET popped == LruPeekLru(atlas.cache)
                rest == [atlas EXCEPT !.cache = LruPopLru(atlas.cache)]
            IN  /\ call' = [call EXCEPT !.evictions = @ + 1]
                /\ UNCHANGED max_seen
                /\ access' = SelectSeq(access, LAMBDA e : e # popped.key)
                /\ pix' = {q \in pix : q.key # popped.key}
                /\ IF popped.value = NoneState
                   THEN \* continue
                        /\ atlas' = rest
                        /\ pc' = "evict"
                   ELSE \* break state; deallocate; retry allocate
                        /\ atlas' = [rest EXCEPT !.packer =
                                        PackerDeallocate(@, popped.value.allocation.id)]
                        /\ pc' = "pack"

\* the None arm of alloc (atlas.rs:278-281): TextureAtlas::grow
GrowStep ==
    /\ pc = "grow"
    /\ IF GrowAssertion(atlas)
       THEN /\ atlas' = grow(atlas)
            /\ call' = [call EXCEPT !.grows = @ + 1]
            /\ pc' = "pack"
            /\ pix' = RecopiedPix(atlas.cache)
            /\ UNCHANGED <<access, max_seen>>
       ELSE \* assert! fails: the call panics
            /\ pc' = "panicked"
            /\ call' = [call EXCEPT !.result = Panic]
            /\ UNCHANGED <<atlas, access, pix, max_seen>>

\* TextureAtlas::trim (atlas.rs:317)
Trim ==
    /\ pc = "idle"
    /\ atlas' = trim(atlas)
    /\ call' = NoCall
    /\ UNCHANGED <<pc, access, pix, max_seen>>

\* TextureAtlas::update_max_texture_side (atlas.rs:311); m is what the
\* context reports now
UpdateMaxTextureSide(m) ==
    /\ pc = "idle"
    /\ atlas' = update_max_texture_side(atlas, m)
    /\ call' = NoCall
    /\ max_seen' = IF m > max_seen THEN m ELSE max_seen
    /\ UNCHANGED <<pc, access, pix>>

Next ==
    \/ \E k \in Keys : Alloc(k)
    \/ PackStep
    \/ EvictStep
    \/ GrowStep
    \/ Trim
    \/ \E m \in MaxSideValues : UpdateMaxTextureSide(m)

Spec == Init /\ [][Next]_vars

\* the next step of the running alloc call
CallStep == PackStep \/ EvictStep \/ GrowStep


\* ------------------------------------------------------------ vocabulary
IsGlyphState(v) == v # NoneState
ZeroSize(image) ==
    image # NoImage /\ (image.placement.width = 0 \/ image.placement.height = 0)

\* this step is the start of alloc(k)
AllocStep(k) == pc = "idle" /\ call'.key = k
\* this step is a growth event: the texture is replaced
GrowthEvent == atlas'.texture.id # atlas.texture.id
\* this step evicts: an entry leaves the cache
Evicted == CacheKeys(atlas.cache) \ CacheKeys(atlas'.cache)

PositionIn(q, k) == CHOOSE i \in 1 .. Len(q) : q[i] = k

\* the doublings, capped at m, that take side s to m
RECURSIVE Doublings(_, _)
Doublings(s, m) == IF s >= m THEN 0 ELSE 1 + Doublings(Min(2 * s, m), m)

\* ------------------------------------------------------------------- C1
\* C1: a key that is in the in-use set and in the cache is not removed from
\* the cache by any step, its entry stays as it is, and the region of its
\* GlyphState stays a live allocation of the packer; this holds when the key
\* is the least recently used entry and an allocation has failed.
C1_InUseProtected ==
    [][\A k \in atlas.in_use \cap CacheKeys(atlas.cache) :
          /\ k \in CacheKeys(atlas'.cache)
          /\ ValueOf(atlas'.cache, k) = ValueOf(atlas.cache, k)
          /\ IsGlyphState(ValueOf(atlas.cache, k)) =>
                ValueOf(atlas.cache, k).allocation \in atlas'.packer.live]_vars

\* the eviction loop met an in-use GlyphState as the oldest entry after an
\* allocation failed, and gave up
C1_Witness ==
    /\ pc = "grow"
    /\ atlas.cache # << >>
    /\ LruPeekLru(atlas.cache).key \in atlas.in_use
    /\ IsGlyphState(LruPeekLru(atlas.cache).value)
    /\ LruPeekLru(atlas.cache).value.allocation \in atlas.packer.live

\* ------------------------------------------------------------------- C2
\* C2: whenever a step of alloc evicts an entry, the last alloc call that
\* accessed the evicted key (inserting or hitting it) is older than the last
\* access of every other key then in the cache.
C2_EvictsLeastRecentlyAccessed ==
    [][\A k \in Evicted : \A j \in CacheKeys(atlas.cache) \ {k} :
          PositionIn(access, k) < PositionIn(access, j)]_vars

\* three entries were cached when the call began, none in use, and the call
\* has evicted the oldest of them, a GlyphState, while the two younger stay
C2_Witness ==
    /\ pc = "pack"
    /\ call.start_len = 3
    /\ call.evictions = 1
    /\ Len(atlas.cache) = 2
    /\ Cardinality(atlas.packer.live) = 1

\* ------------------------------------------------------------------- C3
\* C3 (as claimed): when a miss cannot be packed, nothing can be evicted (the
\* eviction loop gave up: pc = "grow") and the side equals max_texture_side,
\* the call returns None, the side stays, and the atlas takes later calls.
C3_ExhaustionReturnsNone ==
    [][(pc = "grow" /\ atlas.atlas_side = atlas.max_texture_side) =>
          /\ pc' = "idle"
          /\ call'.result = NoGlyphImage
          /\ atlas'.atlas_side = atlas.atlas_side]_vars

\* ------------------------------------------------------------------- C4
\* C4 (as claimed): in every reachable state the side is at most
\* max_texture_side.
C4_SideAtMostMax == atlas.atlas_side <= atlas.max_texture_side

\* C4 (amended): in every reachable state the side is the initial 256 or at
\* most the largest max_texture_side the context has reported so far.
C4_SideAtMostLargestMaxSeen ==
    atlas.atlas_side = InitialSide \/ atlas.atlas_side <= max_seen

\* the atlas has grown to a side that the maximum reported later is below
C4_Witness ==
    /\ atlas.atlas_side > InitialSide
    /\ atlas.atlas_side > atlas.max_texture_side
    /\ atlas.atlas_side = max_seen

\* ------------------------------------------------------------------- C5
\* C5: every growth event happens with the side below max_texture_side and
\* sets the side to min(2 x side, max_texture_side), which is larger than the
\* old side and at most max_texture_side; when grow is reached with the side
\* at or above max_texture_side, the assertion fails and nothing grows.
C5_GrowthCapped ==
    [][/\ GrowthEvent \/ atlas'.atlas_side # atlas.atlas_side =>
            /\ atlas.atlas_side < atlas.max_texture_side
            /\ atlas'.atlas_side = Min(2 * atlas.atlas_side, atlas.max_texture_side)
            /\ atlas'.atlas_side > atlas.atlas_side
            /\ atlas'.atlas_side <= atlas.max_texture_side
            /\ atlas'.packer.side = atlas'.atlas_side
            /\ atlas'.texture.size = atlas'.atlas_side
       /\ (pc = "grow" /\ atlas.atlas_side >= atlas.max_texture_side) =>
            /\ pc' = "panicked"
            /\ atlas' = atlas]_vars

\* a growth whose doubled side was capped by max_texture_side
C5_Witness ==
    /\ pc = "pack"
    /\ call.grows = 1
    /\ atlas.atlas_side = atlas.max_texture_side
    /\ atlas.atlas_side < 2 * call.start_side

\* ------------------------------------------------------------------- C6
\* C6: a growth event leaves every cache entry in place with the same key and
\* the same value (the allocation's handle and rectangle, the placement), and
\* the allocation of every cached GlyphState is still live in the packer.
C6_GrowthKeepsRegions ==
    [][GrowthEvent =>
          /\ Len(atlas'.cache) = Len(atlas.cache)
          /\ \A i \in 1 .. Len(atlas.cache) :
                /\ atlas'.cache[i] = atlas.cache[i]
                /\ IsGlyphState(atlas.cache[i].value) =>
                      atlas.cache[i].value.allocation \in atlas'.packer.live]_vars

\* the scenario: glyph 2 (200x200) was packed at (0,0) at side 256 and is in
\* use; alloc of glyph 3 (200x200) failed at 256, grew the atlas to 512
\* without evicting, and packed glyph 3; glyph 2 is where it was
C6_Witness ==
    /\ pc = "idle"
    /\ call.key = 3 /\ call.start_side = 256 /\ call.grows = 1 /\ call.evictions = 0
    /\ call.result.kind = "Some"
    /\ atlas.atlas_side = 512
    /\ 2 \in CacheKeys(atlas.cache) /\ 3 \in CacheKeys(atlas.cache)
    /\ ValueOf(atlas.cache, 2).allocation \in
          {a \in atlas.packer.live : a.x = 0 /\ a.y = 0 /\ a.w = 200 /\ a.h = 200}
    /\ ValueOf(atlas.cache, 3).allocation \in atlas.packer.live

\* ------------------------------------------------------------------- C7
Running == pc \in {"pack", "evict", "grow"}

\* an upper bound on the steps the running call can still take: three for
\* every doubling left up to max_texture_side and for every cache entry
\* left to evict, and the steps left in the current round of its loop
StepsLeft ==
    3 * (Doublings(atlas.atlas_side, atlas.max_texture_side) + Len(atlas.cache))
      + (CASE pc = "pack" -> 2 [] pc = "evict" -> 1 [] OTHER -> 0)

\* C7: every alloc call that enters the packing loop ends: it evicts at most
\* as many entries as the cache held when it began, grows at most as often
\* as the side can be doubled up to max_texture_side, always has a next step
\* while it runs, and every step either ends the call or lowers StepsLeft;
\* the call ends with the glyph packed and cached or with the failed
\* assertion at the ceiling.  This covers the empty cache and a glyph larger
\* than max_texture_side.
C7_AllocEnds ==
    /\ [](/\ call.evictions <= call.start_len
          /\ call.grows <= Doublings(call.start_side, atlas.max_texture_side)
          /\ Running => ENABLED CallStep
          /\ (pc = "idle" /\ call.image # NoImage) =>
                /\ call.result.kind = "Some"
                /\ call.key \in CacheKeys(atlas.cache)
          /\ pc = "panicked" =>
                /\ call.result = Panic
                /\ atlas.atlas_side >= atlas.max_texture_side)
    /\ [][Running => \/ pc' \in {"idle", "panicked"}
                     \/ Running' /\ StepsLeft' < StepsLeft]_vars

\* a call that evicted, found nothing more to evict, grew and then packed
C7_Witness ==
    /\ pc = "idle"
    /\ call.evictions >= 1
    /\ call.grows >= 1
    /\ call.result.kind = "Some"

\* ------------------------------------------------------------------- C8
\* C8: when alloc(k) misses and the rasterizer reports zero width or height,
\* the sentinel is stored for k; when alloc(k) finds the sentinel cached, it
\* returns None without calling the rasterizer; so of two consecutive
\* alloc(k) calls for such a glyph exactly one calls the rasterizer.
C8_EmptyCachedOnce ==
    [][\A k \in Keys : AllocStep(k) =>
          /\ (k \notin CacheKeys(atlas.cache) /\ ZeroSize(get_image_uncached(k))) =>
                /\ call'.raster_calls = 1
                /\ call'.result = NoGlyphImage
                /\ pc' = "idle"
                /\ k \in CacheKeys(atlas'.cache)
                /\ ValueOf(atlas'.cache, k) = NoneState
          /\ (k \in CacheKeys(atlas.cache) /\ ValueOf(atlas.cache, k) = NoneState) =>
                /\ call'.raster_calls = 0
                /\ call'.result = NoGlyphImage
                /\ pc' = "idle"
                /\ ValueOf(atlas'.cache, k) = NoneState
          /\ (call.key = k /\ ZeroSize(get_image_uncached(k))) =>
                call.raster_calls + call'.raster_calls <= 1]_vars

\* alloc(1) has just returned None from the cached sentinel, without
\* rasterizing
C8_Witness ==
    /\ pc = "idle"
    /\ call.key = 1
    /\ call.raster_calls = 0
    /\ call.result = NoGlyphImage
    /\ 1 \in CacheKeys(atlas.cache)
    /\ ValueOf(atlas.cache, 1) = NoneState

\* ------------------------------------------------------------------- C9
\* C9 (as claimed): after alloc(k) missed and the rasterizer failed, the cache
\* holds the sentinel for k.
C9_FailureCachesSentinel ==
    (pc = "idle" /\ call.key \in Keys /\ get_image_uncached(call.key) = NoImage) =>
        /\ call.result = NoGlyphImage
        /\ call.key \in CacheKeys(atlas.cache)
        /\ ValueOf(atlas.cache, call.key) = NoneState

\* C9 (amended): when the rasterizer fails for k, alloc(k) returns None and
\* stores nothing for k: every alloc(k) is a miss that calls the rasterizer
\* again, and k has no cache entry afterwards.
C9_FailureCachesNothing ==
    (pc = "idle" /\ call.key \in Keys /\ get_image_uncached(call.key) = NoImage) =>
        /\ call.result = NoGlyphImage
        /\ call.raster_calls = 1
        /\ call.key \notin CacheKeys(atlas.cache)
        /\ call.key \notin atlas.in_use

\* alloc(4), whose rasterization fails, has returned while other glyphs are
\* cached
C9_Witness ==
    /\ pc = "idle"
    /\ call.key = 4
    /\ call.raster_calls = 1
    /\ call.result = NoGlyphImage
    /\ Len(atlas.cache) >= 2

\* ------------------------------------------------------------------ C10
\* C10: when alloc(k) misses and the rasterizer fails, the call returns None
\* at once (it does not panic), and the entries the cache held, with their
\* order, the live allocations and the side are what they were.
C10_FailureLeavesAtlas ==
    [][\A k \in Keys :
          (AllocStep(k) /\ k \notin CacheKeys(atlas.cache)
                        /\ get_image_uncached(k) = NoImage) =>
            /\ pc' = "idle"
            /\ call'.result = NoGlyphImage
            /\ Without(atlas'.cache, k) = atlas.cache
            /\ atlas'.packer = atlas.packer
            /\ atlas'.atlas_side = atlas.atlas_side
            /\ atlas'.texture = atlas.texture]_vars

\* alloc(4) failed to rasterize and returned with a sentinel, a GlyphState
\* and a live allocation in the atlas
C10_Witness ==
    /\ pc = "idle"
    /\ call.key = 4
    /\ call.result = NoGlyphImage
    /\ \E i \in 1 .. Len(atlas.cache) : atlas.cache[i].value = NoneState
    /\ \E i \in 1 .. Len(atlas.cache) : IsGlyphState(atlas.cache[i].value)
    /\ atlas.packer.live # {}
    /\ atlas.atlas_side > InitialSide

\* ------------------------------------------------------------------ C11
\* C11: when alloc(k) finds a GlyphState cached under k, the call returns at
\* once a GlyphImage with that state's rectangle, placement and colorable
\* flag and the id of the current texture; k becomes the most recently used
\* entry and joins the in-use set; the other entries keep their order, and
\* the rasterizer is not called, the packer, the side, the texture and the
\* uploaded pixels stay, nothing is evicted and the atlas does not grow.
C11_HitOnGlyphState ==
    [][\A k \in Keys :
          (AllocStep(k) /\ k \in CacheKeys(atlas.cache)
                        /\ IsGlyphState(ValueOf(atlas.cache, k))) =>
            LET state == ValueOf(atlas.cache, k)
            IN  /\ pc' = "idle"
                /\ call'.result.kind = "Some"
                /\ call'.result.atlas_texture_id = atlas.texture.id
                /\ call'.result.uv_x = state.allocation.x
                /\ call'.result.uv_y = state.allocation.y
                /\ call'.result.uv_w = state.allocation.w
                /\ call'.result.uv_h = state.allocation.h
                /\ call'.result.uv_den = atlas.texture.size
                /\ call'.result.top = state.placement.top
                /\ call'.result.left = state.placement.left
                /\ call'.result.width = state.placement.width
                /\ call'.result.height = state.placement.height
                /\ call'.result.colorable = state.colorable
                /\ atlas'.cache =
                      Append(Without(atlas.cache, k), [key |-> k, value |-> state])
                /\ atlas'.in_use = atlas.in_use \cup {k}
                /\ call'.raster_calls = 0
                /\ call'.evictions = 0
                /\ call'.grows = 0
                /\ atlas'.packer = atlas.packer
                /\ atlas'.atlas_side = atlas.atlas_side
                /\ atlas'.texture = atlas.texture
                /\ pix' = pix]_vars

\* alloc(2) hit its GlyphState, which is now the most recently used of at
\* least two entries and in use, while an older entry is not in use
C11_Witness ==
    /\ pc = "idle"
    /\ call.key = 2
    /\ call.raster_calls = 0
    /\ call.result.kind = "Some"
    /\ Len(atlas.cache) >= 2
    /\ atlas.cache[Len(atlas.cache)].key = 2
    /\ 2 \in atlas.in_use
    /\ atlas.cache[1].key \notin atlas.in_use

\* ------------------------------------------------------------------ C12
\* C12 (as claimed): when alloc(k) finds the zero-size sentinel cached under
\* k, the call returns None without calling the rasterizer or the packer, and
\* the cache with its order, the in-use set and the texture are what they
\* were.
C12_SentinelHitChangesNothing ==
    [][\A k \in Keys :
          (AllocStep(k) /\ k \in CacheKeys(atlas.cache)
                        /\ ValueOf(atlas.cache, k) = NoneState) =>
            /\ pc' = "idle"
            /\ call'.result = NoGlyphImage
            /\ call'.raster_calls = 0
            /\ atlas'.packer = atlas.packer
            /\ atlas'.cache = atlas.cache
            /\ atlas'.in_use = atlas.in_use
            /\ atlas'.texture = atlas.texture]_vars

\* C12 (amended): when alloc(k) finds the zero-size sentinel cached under k,
\* the call returns None without calling the rasterizer or the packer; the
\* texture, the side and the uploaded pixels stay; the sentinel becomes the
\* most recently used entry and k joins the in-use set, while the other
\* entries keep their values and their order.
C12_SentinelHitPromotes ==
    [][\A k \in Keys :
          (AllocStep(k) /\ k \in CacheKeys(atlas.cache)
                        /\ ValueOf(atlas.cache, k) = NoneState) =>
            /\ pc' = "idle"
            /\ call'.result = NoGlyphImage
            /\ call'.raster_calls = 0
            /\ call'.evictions = 0
            /\ call'.grows = 0
            /\ atlas'.packer = atlas.packer
            /\ atlas'.cache =
                  Append(Without(atlas.cache, k), [key |-> k, value |-> NoneState])
            /\ atlas'.in_use = atlas.in_use \cup {k}
            /\ atlas'.atlas_side = atlas.atlas_side
            /\ atlas'.texture = atlas.texture
            /\ pix' = pix]_vars

\* alloc(1) hit its sentinel after a trim: the sentinel is the most recently
\* used entry and in use, and an older GlyphState is not in use
C12_Witness ==
    /\ pc = "idle"
    /\ call.key = 1
    /\ call.raster_calls = 0
    /\ call.result = NoGlyphImage
    /\ Len(atlas.cache) >= 2
    /\ atlas.cache[Len(atlas.cache)] = [key |-> 1, value |-> NoneState]
    /\ atlas.in_use = {1}
    /\ IsGlyphState(atlas.cache[1].value)

\* ------------------------------------------------------------------ C13
\* C13: when a miss is packed (the packer returned a rectangle and alloc
\* returns), the cache holds exactly one entry for the key, a GlyphState whose
\* allocation is the rectangle the packer has just issued, that entry is the
\* most recently used, the key is in the in-use set, and the GlyphImage
\* returned carries the origin of that rectangle and the glyph's size.
C13_PackedMissIsCached ==
    [][(pc = "pack" /\ pc' = "idle") =>
          LET k == call.key
              c == atlas'.cache
              issued == atlas'.packer.live \ atlas.packer.live
          IN  /\ Cardinality({i \in 1 .. Len(c) : c[i].key = k}) = 1
              /\ c[Len(c)].key = k
              /\ IsGlyphState(c[Len(c)].value)
              /\ issued = {c[Len(c)].value.allocation}
              /\ c[Len(c)].value.allocation.w = call.image.placement.width
              /\ c[Len(c)].value.allocation.h = call.image.placement.height
              /\ c[Len(c)].value.placement = call.image.placement
              /\ k \in atlas'.in_use
              /\ call'.result.kind = "Some"
              /\ call'.result.uv_x = c[Len(c)].value.allocation.x
              /\ call'.result.uv_y = c[Len(c)].value.allocation.y
              /\ call'.result.uv_w = c[Len(c)].value.allocation.w
              /\ call'.result.uv_h = c[Len(c)].value.allocation.h
              /\ call'.result.atlas_texture_id = atlas'.texture.id]_vars

\* alloc(3) missed, was packed after an eviction and a growth, and returned
\* with its GlyphState the most recently used entry and in use
C13_Witness ==
    /\ pc = "idle"
    /\ call.key = 3
    /\ call.raster_calls = 1
    /\ call.evictions >= 1
    /\ call.grows >= 1
    /\ call.result.kind = "Some"
    /\ atlas.cache[Len(atlas.cache)].key = 3
    /\ atlas.cache[Len(atlas.cache)].value.allocation \in atlas.packer.live
    /\ 3 \in atlas.in_use

\* ------------------------------------------------------------------ C14
\* C14: the in-use set loses keys only in trim: no step of alloc and no
\* update_max_texture_side removes a key from it; trim empties it and leaves
\* the cache with its order, the packer's allocations, the side, the maximum
\* and the texture as they were.
C14_InUseShrinksOnlyInTrim ==
    [][/\ ~Trim => atlas.in_use \subseteq atlas'.in_use
       /\ Trim => /\ atlas'.in_use = {}
                  /\ atlas'.cache = atlas.cache
                  /\ atlas'.packer = atlas.packer
                  /\ atlas'.atlas_side = atlas.atlas_side
                  /\ atlas'.max_texture_side = atlas.max_texture_side
                  /\ atlas'.texture = atlas.texture
                  /\ pix' = pix]_vars

\* trim has just emptied the in-use set of a grown atlas that keeps two
\* cached entries and a live allocation
C14_Witness ==
    /\ pc = "idle"
    /\ call = NoCall
    /\ atlas.in_use = {}
    /\ Len(atlas.cache) >= 2
    /\ atlas.packer.live # {}
    /\ atlas.atlas_side > InitialSide
    /\ access # << >>

\* ------------------------------------------------------------------ C15
\* C15: in every reachable state the rectangles of any two GlyphStates in the
\* cache do not intersect, and the rectangle of every GlyphState in the cache
\* lies inside the square of the current side (which is the texture's size).
C15_NoOverlap ==
    /\ atlas.texture.size = atlas.atlas_side
    /\ \A i \in 1 .. Len(atlas.cache) :
          IsGlyphState(atlas.cache[i].value) =>
             LET a == atlas.cache[i].value.allocation
             IN  /\ 0 <= a.x /\ a.x + a.w <= atlas.atlas_side
                 /\ 0 <= a.y /\ a.y + a.h <= atlas.atlas_side
                 /\ a.w > 0 /\ a.h > 0
                 /\ \A j \in 1 .. Len(atlas.cache) :
                       (j # i /\ IsGlyphState(atlas.cache[j].value)) =>
                          ~Intersects(a, atlas.cache[j].value.allocation)

\* two GlyphStates are cached side by side in an atlas that has grown, one
\* of them packed before the growth and one into a region an eviction freed
C15_Witness ==
    /\ pc = "idle"
    /\ call.evictions >= 1
    /\ call.result.kind = "Some"
    /\ atlas.atlas_side > InitialSide
    /\ \E i, j \in 1 .. Len(atlas.cache) :
          /\ i # j
          /\ IsGlyphState(atlas.cache[i].value)
          /\ IsGlyphState(atlas.cache[j].value)
          /\ atlas.cache[i].value.allocation.x + atlas.cache[i].value.allocation.y > 0

\* ------------------------------------------------------------------ C16
\* C16: no step makes the side smaller, and the side changes only in a step
\* of grow, which replaces the texture.
C16_SideNeverShrinks ==
    [][/\ atlas'.atlas_side >= atlas.atlas_side
       /\ atlas'.atlas_side # atlas.atlas_side =>
             (pc = "grow" /\ GrowStep /\ GrowthEvent)]_vars

\* the side has grown twice to 512, and the context has since reported a
\* maximum below it and trim has run: the side is still 512
C16_Witness ==
    /\ pc = "idle"
    /\ call = NoCall
    /\ atlas.atlas_side = 512
    /\ atlas.texture.id = 2
    /\ atlas.max_texture_side = 256
    /\ atlas.in_use = {}

\* ------------------------------------------------------------------ C17
\* C17: whenever grow is about to be called (pc = "grow"), the packer has
\* refused the size of the glyph being packed and refuses it still, and every
\* entry left in the cache is in the in-use set (or the cache is empty); the
\* texture is replaced in no other state.
C17_GrowsOnlyWhenNothingEvictable ==
    [][/\ pc = "grow" =>
          /\ NoAlloc \in PackerAllocate(atlas.packer, call.image.placement.width,
                                          call.image.placement.height)
          /\ CacheKeys(atlas.cache) \subseteq atlas.in_use
          /\ call.key \notin CacheKeys(atlas.cache)
       /\ GrowthEvent => pc = "grow"]_vars

\* grow is about to be called after the eviction loop removed an entry that
\* was not in use and met a GlyphState that is, and the side can grow
C17_Witness ==
    /\ pc = "grow"
    /\ call.evictions >= 1
    /\ atlas.cache # << >>
    /\ CacheKeys(atlas.cache) \subseteq atlas.in_use
    /\ IsGlyphState(LruPeekLru(atlas.cache).value)
    /\ GrowAssertion(atlas)

\* ------------------------------------------------------------------ C18
\* C18: in every reachable state, for every GlyphState in the cache the
\* texture holds the bitmap of that entry's glyph, of the glyph's size, at
\* the origin of the entry's rectangle; this holds after grow has rebuilt the
\* image and after a region freed by an eviction has been written again.
C18_TextureMatchesCache ==
    \A i \in 1 .. Len(atlas.cache) :
       IsGlyphState(atlas.cache[i].value) =>
          [key |-> atlas.cache[i].key,
           x |-> atlas.cache[i].value.allocation.x,
           y |-> atlas.cache[i].value.allocation.y,
           w |-> atlas.cache[i].value.placement.width,
           h |-> atlas.cache[i].value.placement.height] \in pix

\* between calls, in a texture that grow has rebuilt, two bitmaps are held:
\* one of a glyph cached before the call that grew, and one the call wrote
\* after it had evicted an entry and grown
C18_Witness ==
    /\ pc = "idle"
    /\ call.grows >= 1
    /\ call.evictions >= 1
    /\ call.result.kind = "Some"
    /\ Cardinality(pix) = 2
    /\ Cardinality(atlas.packer.live) = 2
    /\ call.start_len >= 2

\* ------------------------------------------------------------------ C19
\* C19: a step of the eviction loop that pops a sentinel leaves the packer as
\* it is; a step that pops a GlyphState deallocates exactly that state's
\* allocation, which is a live allocation of the packer when the step is
\* taken; and no other step ends an allocation.
C19_DeallocatesLiveHandle ==
    [][/\ call'.evictions = call.evictions + 1 =>
          LET popped == LruPeekLru(atlas.cache)
          IN  /\ pc = "evict"
              /\ ~IsGlyphState(popped.value) => atlas'.packer = atlas.packer
              /\ IsGlyphState(popped.value) =>
                    /\ popped.value.allocation \in atlas.packer.live
                    /\ atlas'.packer.live =
                          atlas.packer.live \ {popped.value.allocation}
                    /\ atlas'.packer.side = atlas.packer.side
       /\ atlas.packer.live \ atlas'.packer.live # {} =>
             (pc = "evict" /\ call'.evictions = call.evictions + 1)]_vars

\* in an atlas that has grown, a call that began with one cached entry has
\* popped it and the packer has no allocation left; the entry was a
\* GlyphState, because the empty packer would not have refused the glyph
C19_Witness ==
    /\ pc = "pack"
    /\ call.start_len = 1
    /\ call.evictions = 1
    /\ call.grows = 0
    /\ atlas.cache = << >>
    /\ atlas.packer.live = {}
    /\ atlas.texture.id >= 1

\* ------------------------------------------------------------------ C20
\* C20: in every reachable state the cached keys that are in the in-use set
\* are the most recently used end of the cache: every entry younger than an
\* in-use entry is in use, and every cached in-use key was last accessed after
\* every cached key that is not in use; so when the oldest entry is in use,
\* every entry is.
C20_InUseIsRecentEnd ==
    /\ \A i, j \in 1 .. Len(atlas.cache) :
          (i < j /\ atlas.cache[i].key \in atlas.in_use) =>
             atlas.cache[j].key \in atlas.in_use
    /\ \A k \in CacheKeys(atlas.cache) \cap atlas.in_use :
          \A j \in CacheKeys(atlas.cache) \ atlas.in_use :
             PositionIn(access, j) < PositionIn(access, k)
    /\ (atlas.cache # << >> /\ LruPeekLru(atlas.cache).key \in atlas.in_use) =>
          CacheKeys(atlas.cache) \subseteq atlas.in_use

\* after a trim, two of three cached entries have been accessed again, the
\* last by a hit on the sentinel: they are in use and younger than the third
C20_Witness ==
    /\ pc = "idle"
    /\ Len(atlas.cache) = 3
    /\ atlas.cache[1].key \notin atlas.in_use
    /\ atlas.in_use = {atlas.cache[2].key, atlas.cache[3].key}
    /\ call.key = atlas.cache[3].key
    /\ call.raster_calls = 0
    /\ atlas.cache[3].value = NoneState

\* ------------------------------------------------------------------ C21
\* C21: in every reachable state (so in every state between calls) the live
\* allocations of the packer are exactly the allocations of the GlyphStates
\* in the cache, and no two cached GlyphStates hold the same handle: no
\* allocation is leaked and no cached GlyphState holds a deallocated handle.
C21_NoAllocationLeak ==
    /\ atlas.packer.live =
          {atlas.cache[i].value.allocation :
              i \in {j \in 1 .. Len(atlas.cache) : IsGlyphState(atlas.cache[j].value)}}
    /\ \A i, j \in 1 .. Len(atlas.cache) :
          (i # j /\ IsGlyphState(atlas.cache[i].value)
                 /\ IsGlyphState(atlas.cache[j].value)) =>
             atlas.cache[i].value.allocation.id # atlas.cache[j].value.allocation.id

\* between calls, after a rasterization failure, in an atlas that has grown:
\* a sentinel and two GlyphStates are cached and the packer has exactly the
\* two allocations
C21_Witness ==
    /\ pc = "idle"
    /\ call.key = 4
    /\ call.raster_calls = 1
    /\ atlas.texture.id >= 1
    /\ Cardinality(atlas.packer.live) = 2
    /\ Len(atlas.cache) = 3
    /\ \E i \in 1 .. 3 : atlas.cache[i].value = NoneState

\* ------------------------------------------------------------------ C22
\* C22: in every reachable state every key in the in-use set has an entry in
\* the cache.
C22_InUseIsCached == atlas.in_use \subseteq CacheKeys(atlas.cache)

\* a call that evicted an entry not in use has returned with its glyph
\* packed; its key is in use and cached, next to an older cached key that is
\* not in use
C22_Witness ==
    /\ pc = "idle"
    /\ call.evictions >= 1
    /\ call.result.kind = "Some"
    /\ atlas.in_use = {call.key}
    /\ Len(atlas.cache) = 2
    /\ call.key \in CacheKeys(atlas.cache)
    /\ atlas.cache[1].key \notin atlas.in_use

\* ------------------------------------------------------------------ C23
\* C23: a step that replaces the texture (a growth event) changes the side,
\* the packer's area and the texture only: the cache, with its keys, the
\* kind and value of every entry and its order, the in-use set, the packer's
\* allocations and the maximum are after the step what they were before it.
C23_GrowthEvictsNothing ==
    [][GrowthEvent =>
          /\ atlas'.cache = atlas.cache
          /\ atlas'.in_use = atlas.in_use
          /\ atlas'.packer.live = atlas.packer.live
          /\ atlas'.max_texture_side = atlas.max_texture_side
          /\ atlas'.atlas_side > atlas.atlas_side
          /\ atlas'.packer.side = atlas'.atlas_side
          /\ atlas'.texture.size = atlas'.atlas_side
          /\ call'.evictions = call.evictions
          /\ access' = access]_vars

\* grow has just run in a call, with a sentinel and a GlyphState cached and
\* both in use; the call goes on to pack its glyph
C23_Witness ==
    /\ pc = "pack"
    /\ call.grows = 1
    /\ Len(atlas.cache) = 2
    /\ \E i \in 1 .. 2 : atlas.cache[i].value = NoneState
    /\ \E i \in 1 .. 2 : IsGlyphState(atlas.cache[i].value)
    /\ atlas.in_use = CacheKeys(atlas.cache)
    /\ atlas.atlas_side > call.start_side

====
